---- MODULE Spec2Model ----
(***************************************************************************)
(* FigEDIT: a 2D shape editor (src/FigEDIT.cpp).                           *)
(*                                                                         *)
(* The module models four parts of the program:                            *)
(*   - the shape classes (constructors, clone, setters, updateShape),      *)
(*   - the UndoRedoManager (addAction, canUndo, canRedo, undo, redo),      *)
(*   - the scene file (guardarEscena, cargarEscena),                       *)
(*   - the host loop of main (event handlers, ImGui buttons, draw/update). *)
(*                                                                         *)
(* Six specifications share the variables:                                 *)
(*   SpecMgr    the UndoRedoManager driven through its public methods,     *)
(*   Spec       the host loop of main,                                     *)
(*   SpecAnim   one shape driven through updateShape and draw,             *)
(*   SpecShape  one shape driven through the setters of ShapeBase,         *)
(*   SpecFile   guardarEscena and cargarEscena on a scene file,            *)
(*   SpecOwn    the ownership of shape objects by Scene and histories.     *)
(*                                                                         *)
(* Lengths are in pixels, angles in degrees, scale factors in percent and  *)
(* times in ticks of half a second; all are integers.                      *)
(***************************************************************************)
EXTENDS Integers, Sequences, FiniteSets, TLC

VARIABLES
    formas,             \* std::vector<std::unique_ptr<ShapeBase>> formas
    formaSeleccionada,  \* int formaSeleccionada
    arrastrando,        \* bool arrastrando
    formaArrastrada,    \* int formaArrastrada
    offset,             \* sf::Vector2f offset
    undoStack,          \* UndoRedoManager::undoStack (top is the last element)
    redoStack,          \* UndoRedoManager::redoStack (top is the last element)
    phase,              \* position in one iteration of the main loop
    crashed,            \* the process has dereferenced a null pointer or
                        \* indexed a vector out of range
    mgrLog,             \* history: the last two calls made on the manager
    mark,               \* history: the last recorded mutation and what followed
    anim,               \* the shape under test of SpecAnim
    ticks,              \* number of updateShape calls made in SpecAnim
    archivo,            \* the scene file "escena.txt"
    heap                \* number of shape objects allocated in SpecOwn

vars == <<formas, formaSeleccionada, arrastrando, formaArrastrada, offset,
          undoStack, redoStack, phase, crashed, mgrLog, mark, anim, ticks,
          archivo, heap>>

hostVars == <<formas, formaSeleccionada, arrastrando, formaArrastrada, offset,
              phase, crashed, mark>>

\* the locals of main
sceneVars == <<formas, formaSeleccionada, arrastrando, formaArrastrada, offset,
               phase, crashed>>

mgrVars == <<undoStack, redoStack>>

animVars == <<anim, ticks>>

----------------------------------------------------------------------------
(* Bounds of the model. *)

\* longest undoStack the model records into
MaxHist == 2

\* longest Scene the model adds to
MaxShapes == 2

\* number of updateShape calls SpecAnim makes
MaxTicks == 4

\* number of "Añadir" buttons the model clicks
MaxBotones == 3

\* the longest Scene saved to the scene file in SpecFile
MaxFileShapes == 2

\* the most shape objects allocated in SpecOwn
MaxObjects == 6

\* largest Action::index SpecMgr feeds to addAction
MaxIndex == 1

\* longest undoStack SpecMgr records into
MgrMaxHist == 2

----------------------------------------------------------------------------
(* Shapes. *)

\* a null std::unique_ptr<ShapeBase>
NullShape == [cls |-> "nullptr"]

\* a null std::unique_ptr<sf::Shape>
NullSfShape == [isNull |-> TRUE]

\* time is counted in ticks of half a second
TicksPerSecond == 2

\* the initial TextShapeClass::blinkInterval, 0.5 s
BlinkInterval == 1

Front(s) == SubSeq(s, 1, Len(s) - 1)

Last(s) == s[Len(s)]

\* the classes derived from ShapeBase
Classes == {"Circle", "Rectangle", "Triangle", "Ellipse", "Polygon", "Line",
            "Cube", "Text"}

\* the classes whose updateShape advances rotation by rotationSpeed
RotatingClasses == {"Circle", "Rectangle", "Triangle", "Ellipse", "Polygon",
                    "Line"}

\* the classes whose updateShape also pulses the rendered scale
PulsingClasses == {"Circle", "Rectangle"}

\* the classes whose constructor creates shapePtr (an sf::Shape)
SfShapeClasses == RotatingClasses

\* the ShapeType each constructor hands to ShapeBase
TypeTag(cls) == IF cls = "Cube" THEN "Polygon" ELSE cls

\* the rendered object (the sf::Shape behind shapePtr) with its transform,
\* fill colour and selection outline
Rendered(pos, rot, scl, fill) ==
    [position |-> pos, rotation |-> rot, scale |-> scl, fill |-> fill,
     outline |-> FALSE]

\* std::atan2(dy, dx) * 180 / pi for the directions the program builds
\* lines with; any other direction stays symbolic
atan2Deg(dy, dx) ==
    CASE dy = 0 /\ dx > 0 -> 0
      [] dy = dx /\ dx > 0 -> 45
      [] OTHER -> <<"atan2", dy, dx>>

\* std::sqrt(dx * dx + dy * dy), rounded down: the length of the rendered
\* rectangle of a line
lineLength(dx, dy) ==
    IF dy = 0
    THEN dx
    ELSE CHOOSE k \in 0..(dx + dy) :
             k * k <= dx * dx + dy * dy /\ (k + 1) * (k + 1) > dx * dx + dy * dy

\* ShapeBase::ShapeBase followed by the body of the derived constructor.
\* geom holds the class's geometry fields; rot0 and scl0 are the rotation and
\* scale the constructor gives the rendered object.
NewShape(cls, pos, col, geom, rot0, scl0) ==
    [cls |-> cls,
     type |-> TypeTag(cls),
     position |-> pos,
     color |-> col,
     rotation |-> 0,
     scale |-> <<100, 100>>,
     isSelected |-> FALSE,
     isAnimated |-> FALSE,
     geom |-> geom,
     rotationSpeed |-> 0,
     scaleSpeed |-> 0,
     scaleTime |-> 0,
     shapePtr |-> IF cls \in SfShapeClasses
                  THEN Rendered(pos, rot0, scl0, col)
                  ELSE NullSfShape,
     textPtr |-> IF cls = "Text"
                 THEN Rendered(pos, rot0, scl0, col)
                 ELSE NullSfShape]

\* CircleShapeClass::CircleShapeClass
NewCircle(pos, col, radius) ==
    NewShape("Circle", pos, col, [radius |-> radius], 0, <<100, 100>>)

\* RectangleShapeClass::RectangleShapeClass
NewRectangle(pos, col, size) ==
    NewShape("Rectangle", pos, col, [size |-> size], 0, <<100, 100>>)

\* TriangleShapeClass::TriangleShapeClass
NewTriangle(pos, col, size) ==
    NewShape("Triangle", pos, col, [size |-> size], 0, <<100, 100>>)

\* EllipseShapeClass::EllipseShapeClass: the rendered circle of radius 1 is
\* scaled by (radiusX / 50, radiusY / 50)
NewEllipse(pos, col, radiusX, radiusY) ==
    NewShape("Ellipse", pos, col, [radiusX |-> radiusX, radiusY |-> radiusY],
             0, <<2 * radiusX, 2 * radiusY>>)

\* PolygonShapeClass::PolygonShapeClass
NewPolygon(pos, col, points) ==
    NewShape("Polygon", pos, col, [points |-> points], 0, <<100, 100>>)

\* LineShapeClass::LineShapeClass: position is the midpoint of the
\* endpoints, the rendered rectangle is turned to the line's direction
NewLine(startPoint, endPoint, col, thickness) ==
    NewShape("Line",
             <<(startPoint[1] + endPoint[1]) \div 2,
               (startPoint[2] + endPoint[2]) \div 2>>,
             col,
             [thickness |-> thickness,
              length |-> lineLength(endPoint[1] - startPoint[1],
                                    endPoint[2] - startPoint[2])],
             atan2Deg(endPoint[2] - startPoint[2], endPoint[1] - startPoint[1]),
             <<100, 100>>)

\* CubeShapeClass::CubeShapeClass: reports ShapeType::Polygon and creates
\* no shapePtr
NewCube(pos, col, size, depth) ==
    NewShape("Cube", pos, col,
             [size |-> size, depth |-> depth, rotationAngle |-> 0],
             0, <<100, 100>>)

\* TextShapeClass::TextShapeClass: draws through textPtr and creates no
\* shapePtr
NewText(pos, col, content) ==
    NewShape("Text", pos, col,
             [content |-> content, characterSize |-> 24, blinkTimer |-> 0,
              blinkInterval |-> BlinkInterval, visible |-> TRUE],
             0, <<100, 100>>)

\* the virtual clone() of each class: a new object made by the class's
\* constructor from position, color and the geometry fields alone
clone(s) ==
    CASE s.cls = "Circle" -> NewCircle(s.position, s.color, s.geom.radius)
      [] s.cls = "Rectangle" -> NewRectangle(s.position, s.color, s.geom.size)
      [] s.cls = "Triangle" -> NewTriangle(s.position, s.color, s.geom.size)
      [] s.cls = "Ellipse" ->
           NewEllipse(s.position, s.color, s.geom.radiusX, s.geom.radiusY)
      [] s.cls = "Polygon" -> NewPolygon(s.position, s.color, s.geom.points)
      [] s.cls = "Line" ->
           NewLine(s.position, <<s.position[1] + 100, s.position[2]>>,
                   s.color, s.geom.thickness)
      [] s.cls = "Cube" ->
           [NewCube(s.position, s.color, s.geom.size, s.geom.depth)
              EXCEPT !.type = s.type,
                     !.geom.rotationAngle = s.geom.rotationAngle]
      [] s.cls = "Text" -> NewText(s.position, s.color, s.geom.content)

----------------------------------------------------------------------------
(* Operations on one shape. *)

IsNull(s) == s = NullShape

\* whether a call that goes through shapePtr can be made on the entry s
HasSfShape(s) == ~IsNull(s) /\ s.shapePtr # NullSfShape

\* ShapeBase::setPosition
setPosition(s, pos) ==
    [s EXCEPT !.position = pos, !.shapePtr.position = pos]

\* ShapeBase::setRotation
setRotation(s, rot) ==
    [s EXCEPT !.rotation = rot, !.shapePtr.rotation = rot]

\* ShapeBase::setScale
setScale(s, scl) ==
    [s EXCEPT !.scale = scl, !.shapePtr.scale = scl]

\* ShapeBase::setColor
setColor(s, col) ==
    [s EXCEPT !.color = col, !.shapePtr.fill = col]

\* ShapeBase::select with updateSelectionVisual
select(s) == [s EXCEPT !.isSelected = TRUE, !.shapePtr.outline = TRUE]

\* ShapeBase::deselect with updateSelectionVisual
deselect(s) == [s EXCEPT !.isSelected = FALSE, !.shapePtr.outline = FALSE]

\* ShapeBase::enableAnimation
enableAnimation(s, enable) == [s EXCEPT !.isAnimated = enable]

\* setRotationSpeed of the six classes that have one
setRotationSpeed(s, speed) == [s EXCEPT !.rotationSpeed = speed]

\* the draw override of each class: the classes with a shapePtr (and Text
\* with its textPtr) copy rotation, scale and color to the rendered object
\* before drawing it; the Cube draws its lines
draw(s) ==
    CASE s.cls \in SfShapeClasses ->
           [s EXCEPT !.shapePtr.rotation = s.rotation,
                     !.shapePtr.scale = s.scale,
                     !.shapePtr.fill = s.color]
      [] s.cls = "Text" ->
           [s EXCEPT !.textPtr.rotation = s.rotation,
                     !.textPtr.scale = s.scale,
                     !.textPtr.fill = s.color]
      [] OTHER -> s

\* the object a shape is drawn with: the sf::Text of a Text, the sf::Shape
\* of the others
RenderedOf(s) == IF s.cls = "Text" THEN s.textPtr ELSE s.shapePtr

\* rotationSpeed * deltaTime, in degrees
Turn(speed, dt) == (speed * dt) \div TicksPerSecond

\* "if (rotation > 360.0f) rotation -= 360.0f"
wrap(rot) == IF rot > 360 THEN rot - 360 ELSE rot

\* the rendered scale of the pulse: (1 + sin(scaleTime + deltaTime) *
\* scaleSpeed * deltaTime) * scale, which is scale when scaleSpeed is 0 and
\* is kept symbolic otherwise
pulse(s, dt) ==
    IF s.scaleSpeed = 0
    THEN s.scale
    ELSE <<"sin", s.scaleTime + dt, s.scaleSpeed, dt, s.scale>>

\* TextShapeClass::setBlinkInterval
setBlinkInterval(s, interval) == [s EXCEPT !.geom.blinkInterval = interval]

\* the blink without the reset of the timer
blinkKeepTimer(s, dt) ==
    IF s.geom.blinkTimer + dt >= s.geom.blinkInterval
    THEN [s EXCEPT !.geom.visible = ~s.geom.visible,
                   !.textPtr.fill = IF ~s.geom.visible
                                    THEN s.color
                                    ELSE "Transparent",
                   !.geom.blinkTimer = s.geom.blinkTimer + dt]
    ELSE [s EXCEPT !.geom.blinkTimer = s.geom.blinkTimer + dt]

\* the body of TextShapeClass::updateShape: the timer takes the elapsed
\* time; once it has reached blinkInterval the text is shown or hidden and
\* the timer starts again
blink(s, dt) ==
    IF s.geom.blinkTimer + dt >= s.geom.blinkInterval
    THEN [s EXCEPT !.geom.visible = ~s.geom.visible,
                   !.textPtr.fill = IF ~s.geom.visible
                                    THEN s.color
                                    ELSE "Transparent",
                   !.geom.blinkTimer = 0]
    ELSE [s EXCEPT !.geom.blinkTimer = s.geom.blinkTimer + dt]

\* updateShape without the test of isAnimated
updateShapeUnguarded(s, dt) ==
    CASE s.cls \in PulsingClasses ->
           LET rot == wrap(s.rotation + Turn(s.rotationSpeed, dt))
           IN  [s EXCEPT !.rotation = rot,
                         !.shapePtr.rotation = rot,
                         !.shapePtr.scale = pulse(s, dt),
                         !.scaleTime = s.scaleTime + dt]
      [] s.cls \in RotatingClasses \ PulsingClasses ->
           LET rot == wrap(s.rotation + Turn(s.rotationSpeed, dt))
           IN  [s EXCEPT !.rotation = rot, !.shapePtr.rotation = rot]
      [] s.cls = "Text" ->
           blink(s, dt)
      [] OTHER -> s

\* the updateShape override of each class
updateShape(s, dt) ==
    CASE s.cls \in PulsingClasses /\ s.isAnimated ->
           LET rot == wrap(s.rotation + Turn(s.rotationSpeed, dt))
           IN  [s EXCEPT !.rotation = rot,
                         !.shapePtr.rotation = rot,
                         !.shapePtr.scale = pulse(s, dt),
                         !.scaleTime = s.scaleTime + dt]
      [] s.cls \in RotatingClasses \ PulsingClasses /\ s.isAnimated ->
           LET rot == wrap(s.rotation + Turn(s.rotationSpeed, dt))
           IN  [s EXCEPT !.rotation = rot, !.shapePtr.rotation = rot]
      [] s.cls = "Text" /\ s.isAnimated ->
           blink(s, dt)
      [] OTHER -> s

SetMax(S) == CHOOSE x \in S : \A y \in S : y <= x

SetMin(S) == CHOOSE x \in S : \A y \in S : x <= y

\* sf::Shape::getLocalBounds of the rendered object: the bounding box of its
\* points, as <<left, top, width, height>>
getLocalBounds(s) ==
    CASE s.cls = "Circle" -> <<0, 0, 2 * s.geom.radius, 2 * s.geom.radius>>
      [] s.cls = "Rectangle" -> <<0, 0, s.geom.size[1], s.geom.size[2]>>
      [] s.cls = "Triangle" -> <<0, 0, s.geom.size, s.geom.size>>
      [] s.cls = "Ellipse" -> <<0, 0, 2, 2>>
      [] s.cls = "Polygon" /\ Len(s.geom.points) < 3 -> <<0, 0, 0, 0>>
      [] s.cls = "Polygon" ->
           LET xs == {s.geom.points[i][1] : i \in DOMAIN s.geom.points}
               ys == {s.geom.points[i][2] : i \in DOMAIN s.geom.points}
           IN  <<SetMin(xs), SetMin(ys),
                 SetMax(xs) - SetMin(xs), SetMax(ys) - SetMin(ys)>>
      [] s.cls = "Line" -> <<0, 0, s.geom.length, s.geom.thickness>>

\* the origin each constructor sets on the rendered object
Origin(s) ==
    CASE s.cls = "Circle" -> <<s.geom.radius, s.geom.radius>>
      [] s.cls = "Rectangle" -> <<s.geom.size[1] \div 2, s.geom.size[2] \div 2>>
      [] s.cls = "Triangle" -> <<s.geom.size \div 2, s.geom.size \div 2>>
      [] s.cls = "Ellipse" -> <<s.geom.radiusX, s.geom.radiusY>>
      [] s.cls = "Polygon" ->
           <<getLocalBounds(s)[3] \div 2, getLocalBounds(s)[4] \div 2>>
      [] s.cls = "Line" -> <<0, s.geom.thickness \div 2>>

\* sf::Shape::getGlobalBounds of the rendered object, as
\* <<left, top, right, bottom>>: the local bounds moved by the origin, scaled
\* and moved to the position (the rotation of the rendered object is left
\* out: the box is the one of the unrotated shape)
getGlobalBounds(s) ==
    LET b == getLocalBounds(s)
        o == Origin(s)
        r == s.shapePtr
        \* a rendered scale in the middle of a pulse is taken at the
        \* pulse's centre, the logical scale
        k == IF Len(r.scale) = 2 THEN r.scale ELSE s.scale
    IN  <<r.position[1] + ((b[1] - o[1]) * k[1]) \div 100,
          r.position[2] + ((b[2] - o[2]) * k[2]) \div 100,
          r.position[1] + ((b[1] + b[3] - o[1]) * k[1]) \div 100,
          r.position[2] + ((b[2] + b[4] - o[2]) * k[2]) \div 100>>

\* sf::FloatRect::contains
contains(b, m) == m[1] >= b[1] /\ m[1] < b[3] /\ m[2] >= b[2] /\ m[2] < b[4]

----------------------------------------------------------------------------
(* Action and UndoRedoManager. *)

ActionTypes == {"Add", "Remove", "Modify"}

\* Action{}: value-initialised, type is the first enumerator, shape is null
EmptyAction == [type |-> "Add", shape |-> NullShape, index |-> 0]

CopiedNotMoved(a) == a

\* an Action after std::move(action): the defaulted move constructor copies
\* type and index and leaves the unique_ptr null
MovedFrom(a) == [a EXCEPT !.shape = NullShape]

addActionKeepRedo(u, r, action) ==
    [undoStack |-> Append(u, action), redoStack |-> r]

\* UndoRedoManager::addAction
addAction(u, r, action) ==
    [undoStack |-> Append(u, action), redoStack |-> <<>>]

\* UndoRedoManager::canUndo
canUndo(u) == u # <<>>

\* UndoRedoManager::canRedo
canRedo(r) == r # <<>>

undoPushHollow(u, r) ==
    IF canUndo(u)
    THEN [undoStack |-> Front(u),
          redoStack |-> Append(r, MovedFrom(Last(u))),
          ret |-> Last(u)]
    ELSE [undoStack |-> u, redoStack |-> r, ret |-> EmptyAction]

undoPushAlways(u, r) ==
    IF canUndo(u)
    THEN [undoStack |-> Front(u),
          redoStack |-> Append(r, Last(u)),
          ret |-> MovedFrom(Last(u))]
    ELSE [undoStack |-> u,
          redoStack |-> Append(r, EmptyAction),
          ret |-> EmptyAction]

\* UndoRedoManager::undo: the action is moved into redoStack, and the local
\* it was moved from is what is returned
undo(u, r) ==
    IF canUndo(u)
    THEN [undoStack |-> Front(u),
          redoStack |-> Append(r, Last(u)),
          ret |-> MovedFrom(Last(u))]
    ELSE [undoStack |-> u, redoStack |-> r, ret |-> EmptyAction]

redoKeepTop(u, r) ==
    IF canRedo(r)
    THEN [undoStack |-> Append(u, Last(r)),
          redoStack |-> r,
          ret |-> MovedFrom(Last(r))]
    ELSE [undoStack |-> u, redoStack |-> r, ret |-> EmptyAction]

\* UndoRedoManager::redo
redo(u, r) ==
    IF canRedo(r)
    THEN [undoStack |-> Append(u, Last(r)),
          redoStack |-> Front(r),
          ret |-> MovedFrom(Last(r))]
    ELSE [undoStack |-> u, redoStack |-> r, ret |-> EmptyAction]

----------------------------------------------------------------------------
(* The shapes the buttons of main add. *)

\* "Añadir Círculo"
BotonCirculo == NewCircle(<<400, 300>>, "Green", 50)

\* "Añadir Rectángulo"
BotonRectangulo == NewRectangle(<<600, 300>>, "Blue", <<100, 60>>)

\* "Añadir Triángulo"
BotonTriangulo == NewTriangle(<<800, 300>>, "Red", 100)

\* "Añadir Elipse"
BotonElipse == NewEllipse(<<500, 400>>, "Magenta", 80, 40)

\* "Añadir Polígono"
BotonPoligono ==
    NewPolygon(<<700, 400>>, "Cyan",
               <<(<<0, 60>>), (<<50, 0>>), (<<100, 60>>), (<<75, 120>>),
                 (<<25, 120>>)>>)

\* "Añadir Línea"
BotonLinea == NewLine(<<800, 500>>, <<900, 600>>, "Yellow", 4)

\* "Añadir Cubo"
BotonCubo == NewCube(<<500, 400>>, "Yellow", 100, 50)

----------------------------------------------------------------------------
(* The scene file.  A file that cannot be opened is NoFile; a file that    *)
(* opens is the sequence of its whitespace-separated tokens, numbers       *)
(* (Num) and words (Str).  Numbers are written and read back unchanged:    *)
(* every number of the model is an integer of at most six digits.          *)

NoFile == [open |-> FALSE]

File(tokens) == [open |-> TRUE, tokens |-> tokens]

Num(n) == [n |-> n]

Str(s) == [s |-> s]

IsNum(tok) == "n" \in DOMAIN tok

Nums(seq) == [i \in DOMAIN seq |-> Num(seq[i])]

\* static_cast<int>(ShapeType)
TypeInt(type) ==
    CASE type = "Circle" -> 0
      [] type = "Rectangle" -> 1
      [] type = "Triangle" -> 2
      [] type = "Ellipse" -> 3
      [] type = "Polygon" -> 4
      [] type = "Line" -> 5
      [] type = "Cube" -> 6
      [] type = "Text" -> 7

\* static_cast<ShapeType>(int); "none" is a value no case of the switch has
TypeOfInt(i) ==
    CASE i = 0 -> "Circle"
      [] i = 1 -> "Rectangle"
      [] i = 2 -> "Triangle"
      [] i = 3 -> "Ellipse"
      [] i = 4 -> "Polygon"
      [] i = 5 -> "Line"
      [] i = 6 -> "Cube"
      [] i = 7 -> "Text"
      [] OTHER -> "none"

\* the r, g, b, a components of the sf::Color constants the program uses
ColorRGBA(col) ==
    CASE col = "Green" -> <<0, 255, 0, 255>>
      [] col = "Blue" -> <<0, 0, 255, 255>>
      [] col = "Red" -> <<255, 0, 0, 255>>
      [] col = "Magenta" -> <<255, 0, 255, 255>>
      [] col = "Cyan" -> <<0, 255, 255, 255>>
      [] col = "Yellow" -> <<255, 255, 0, 255>>
      [] col = "White" -> <<255, 255, 255, 255>>
      [] col = "Transparent" -> <<0, 0, 0, 0>>
      [] col = "Other" -> <<1, 1, 1, 1>>

ColorNames ==
    {"Green", "Blue", "Red", "Magenta", "Cyan", "Yellow", "White",
     "Transparent"}

\* sf::Color(r, g, b, a): the constant with these components; "Other"
\* stands for every colour that is none of the constants (only a file whose
\* columns are read out of step yields one)
ColorOfRGBA(rgba) ==
    IF \E c \in ColorNames : ColorRGBA(c) = rgba
    THEN CHOOSE c \in ColorNames : ColorRGBA(c) = rgba
    ELSE "Other"

RECURSIVE FlatPoints(_)
\* the coordinates of a polygon's points, x and y in turn
FlatPoints(points) ==
    IF points = <<>>
    THEN <<>>
    ELSE <<points[1][1], points[1][2]>> \o FlatPoints(Tail(points))

\* the fields guardarEscena writes for every shape
EncodeCommon(s) ==
    Nums(<<TypeInt(s.type), s.position[1], s.position[2], s.rotation,
           s.scale[1], s.scale[2]>>
         \o ColorRGBA(s.color)
         \o <<IF s.isAnimated THEN 1 ELSE 0>>)

\* the fields guardarEscena's switch on getType() writes: nothing when the
\* dynamic_cast to the class of that type fails, as for a Cube, whose type
\* is Polygon
EncodeSpecific(s) ==
    CASE s.cls # s.type -> <<>>
      [] s.cls = "Circle" ->
           Nums(<<s.geom.radius, s.rotationSpeed, s.scaleSpeed>>)
      [] s.cls = "Rectangle" ->
           Nums(<<s.geom.size[1], s.geom.size[2], s.rotationSpeed,
                  s.scaleSpeed>>)
      [] s.cls = "Triangle" -> Nums(<<s.geom.size, s.rotationSpeed>>)
      [] s.cls = "Ellipse" ->
           Nums(<<s.geom.radiusX, s.geom.radiusY, s.rotationSpeed>>)
      [] s.cls = "Polygon" ->
           Nums(<<Len(s.geom.points)>> \o FlatPoints(s.geom.points)
                \o <<s.rotationSpeed>>)
      [] s.cls = "Line" -> Nums(<<s.geom.thickness, s.rotationSpeed>>)
      [] s.cls = "Text" ->
           <<Str(s.geom.content), Num(s.geom.characterSize)>>

RECURSIVE EncodeShapes(_)
EncodeShapes(scene) ==
    IF scene = <<>>
    THEN <<>>
    ELSE EncodeCommon(scene[1]) \o EncodeSpecific(scene[1])
         \o EncodeShapes(Tail(scene))

\* guardarEscena on a Scene without null entries
guardarEscena(scene) == File(<<Num(Len(scene))>> \o EncodeShapes(scene))

\* ShapeBase-derived setScaleSpeed of Circle and Rectangle
setScaleSpeed(s, speed) == [s EXCEPT !.scaleSpeed = speed]

\* A formatted read (archivo >> x) at the end of the file, or after an
\* earlier read has failed, leaves x as it was: an uninitialized local of
\* cargarEscena, whose value is indeterminate.  A load is modelled for one
\* choice of what the indeterminate values turn out to be:
\*   num  the number every unread number holds;
\*   rec  what an iteration does whose type was not read: "none" (the type
\*        is no case of the switch), "repeat" (the locals still hold the
\*        previous record) or "crash" (the values make the process end).
IndetNums == {0, 1}

IndetChoices == [num : IndetNums, rec : {"none", "repeat", "crash"}]

\* the first k tokens are there and are numbers
HasNums(ts, k) == Len(ts) >= k /\ \A i \in 1..k : IsNum(ts[i])

\* k numbers read in turn: the tokens' numbers up to the first read that
\* fails, ch.num from there on
ReadNums(ts, k, ch) ==
    [i \in 1..k |-> IF HasNums(ts, i) THEN ts[i].n ELSE ch.num]

\* the tokens left after k reads: none once a read has failed
Rest(ts, k) == IF HasNums(ts, k) THEN SubSeq(ts, k + 1, Len(ts)) ELSE <<>>

RECURSIVE PairUp(_)
\* the points read as x, y pairs
PairUp(xs) ==
    IF Len(xs) < 2
    THEN <<>>
    ELSE <<(<<xs[1], xs[2]>>)>> \o PairUp(SubSeq(xs, 3, Len(xs)))

\* the tail of one iteration of cargarEscena's loop: enableAnimation,
\* setRotation and setScale on the new shape, then push_back.  setRotation
\* goes through shapePtr, which a Text does not have.
Finish(s, h, acc, rest) ==
    IF HasSfShape(s)
    THEN [formas |-> Append(acc,
                       setScale(setRotation(enableAnimation(s, h[11] # 0),
                                            h[4]),
                                <<h[5], h[6]>>)),
          rest |-> rest, crashed |-> FALSE]
    ELSE [formas |-> acc, rest |-> rest, crashed |-> TRUE]

\* one iteration of cargarEscena's loop on the tokens ts, with acc the
\* shapes pushed so far
DecodeRecord(ts, acc, ch) ==
    IF ~HasNums(ts, 1)
    THEN \* the type was not read
         CASE ch.rec = "crash" ->
                [formas |-> acc, rest |-> <<>>, crashed |-> TRUE]
           [] ch.rec = "repeat" /\ acc # <<>> ->
                [formas |-> Append(acc, Last(acc)), rest |-> <<>>,
                 crashed |-> FALSE]
           [] OTHER -> [formas |-> acc, rest |-> <<>>, crashed |-> FALSE]
    ELSE LET h == ReadNums(ts, 11, ch)
             \* a bool read of a number other than 0 and 1 fails
             r1 == IF HasNums(ts, 11) /\ ts[11].n \notin {0, 1}
                   THEN <<>>
                   ELSE Rest(ts, 11)
             tipo == TypeOfInt(h[1])
             pos == <<h[2], h[3]>>
             col == ColorOfRGBA(<<h[7], h[8], h[9], h[10]>>)
         IN  CASE tipo = "Circle" ->
                    LET f == ReadNums(r1, 3, ch)
                    IN  Finish(setScaleSpeed(setRotationSpeed(
                                   NewCircle(pos, col, f[1]), f[2]), f[3]),
                               h, acc, Rest(r1, 3))
               [] tipo = "Rectangle" ->
                    LET f == ReadNums(r1, 4, ch)
                    IN  Finish(setScaleSpeed(setRotationSpeed(
                                   NewRectangle(pos, col, <<f[1], f[2]>>),
                                   f[3]), f[4]),
                               h, acc, Rest(r1, 4))
               [] tipo = "Triangle" ->
                    LET f == ReadNums(r1, 2, ch)
                    IN  Finish(setRotationSpeed(NewTriangle(pos, col, f[1]),
                                                f[2]),
                               h, acc, Rest(r1, 2))
               [] tipo = "Ellipse" ->
                    LET f == ReadNums(r1, 3, ch)
                    IN  Finish(setRotationSpeed(
                                   NewEllipse(pos, col, f[1], f[2]), f[3]),
                               h, acc, Rest(r1, 3))
               [] tipo = "Polygon" ->
                    IF ~HasNums(r1, 1) /\ ch.rec = "crash"
                    THEN \* std::vector of an indeterminate size
                         [formas |-> acc, rest |-> <<>>, crashed |-> TRUE]
                    ELSE LET n == ReadNums(r1, 1, ch)[1]
                             f == ReadNums(Rest(r1, 1), 2 * n + 1, ch)
                         IN  Finish(setRotationSpeed(
                                        NewPolygon(pos, col,
                                            PairUp(SubSeq(f, 1, 2 * n))),
                                        f[2 * n + 1]),
                                    h, acc, Rest(Rest(r1, 1), 2 * n + 1))
               [] tipo = "Line" ->
                    LET f == ReadNums(r1, 2, ch)
                    IN  Finish(setRotationSpeed(
                                   NewLine(<<h[2] - 50, h[3]>>,
                                           <<h[2] + 50, h[3]>>, col, f[1]),
                                   f[2]),
                               h, acc, Rest(r1, 2))
               [] tipo = "Text" ->
                    \* std::getline up to the next blank, then the size
                    LET content == IF r1 = <<>> THEN ""
                                   ELSE IF IsNum(r1[1]) THEN r1[1].n
                                   ELSE r1[1].s
                        r2 == IF r1 = <<>> THEN <<>> ELSE Tail(r1)
                        tam == ReadNums(r2, 1, ch)[1]
                    IN  Finish([NewText(pos, col, content)
                                   EXCEPT !.geom.characterSize = tam],
                               h, acc, Rest(r2, 1))
               [] OTHER ->
                    \* no case of the switch: nuevaForma stays null
                    [formas |-> acc, rest |-> r1, crashed |-> FALSE]

RECURSIVE DecodeLoop(_, _, _, _)
\* the loop "for (size_t i = 0; i < cantidad; ++i)"
DecodeLoop(cantidad, ts, acc, ch) ==
    IF cantidad = 0
    THEN [formas |-> acc, crashed |-> FALSE]
    ELSE LET r == DecodeRecord(ts, acc, ch)
         IN  IF r.crashed
             THEN [formas |-> r.formas, crashed |-> TRUE]
             ELSE DecodeLoop(cantidad - 1, r.rest, r.formas, ch)

cargarEscenaSinClear(file, scene, ch) ==
    IF file.open
    THEN DecodeLoop(ReadNums(file.tokens, 1, ch)[1], Rest(file.tokens, 1),
                    scene, ch)
    ELSE [formas |-> scene, crashed |-> FALSE]

\* cargarEscena: a file that does not open leaves the Scene alone; one that
\* opens has its count read, the Scene cleared and then one iteration per
\* declared record
cargarEscena(file, scene, ch) ==
    IF file.open
    THEN DecodeLoop(ReadNums(file.tokens, 1, ch)[1], Rest(file.tokens, 1),
                    <<>>, ch)
    ELSE [formas |-> scene, crashed |-> FALSE]

----------------------------------------------------------------------------
(* History variables. *)

\* the log of manager calls keeps the last two
Logged(log, entry) ==
    IF Len(log) < 2 THEN Append(log, entry) ELSE <<log[2], entry>>

\* one manager call: its name, its argument, what it returned and the two
\* stacks as they were before it
LogEntry(op, arg, ret) ==
    [op |-> op, arg |-> arg, ret |-> ret,
     undoBefore |-> undoStack, redoBefore |-> redoStack]

NoMark == [kind |-> "none"]

----------------------------------------------------------------------------
(* Initial state of main: the locals declared before the main loop. *)

\* nothing is selected or dragged and there is no scene file
LocalsInit ==
    /\ formaSeleccionada = -1
    /\ arrastrando = FALSE
    /\ formaArrastrada = -1
    /\ offset = <<0, 0>>
    /\ phase = "events"
    /\ crashed = FALSE
    /\ mark = NoMark
    /\ archivo = NoFile
    /\ heap = 0

HostInit ==
    /\ formas = <<>>
    /\ LocalsInit

MgrStateInit ==
    /\ undoStack = <<>>
    /\ redoStack = <<>>
    /\ mgrLog = <<>>

AnimIdle ==
    /\ anim = NullShape
    /\ ticks = 0

----------------------------------------------------------------------------
(* The host loop of main.  One iteration polls the pending events          *)
(* (phase "events"), runs the ImGui windows (phase "gui"), then draws and   *)
(* updates every shape (phase "render").  Indices are 0-based as in the     *)
(* code; formas[i + 1] is the code's formas[i].                             *)

\* the mouse positions of the events, in world coordinates
MousePoints == {<<400, 300>>, <<620, 310>>}

\* the elapsed times deltaClock reports, in ticks
DeltaTimes == {0, 1, 2, 6}

\* the shapes behind the seven "Añadir" buttons; the model clicks the first
\* MaxBotones of them
TodosBotones == <<BotonCirculo, BotonRectangulo, BotonCubo, BotonLinea,
                  BotonElipse, BotonTriangulo, BotonPoligono>>

Botones == {TodosBotones[i] : i \in 1..MaxBotones}

\* a text as cargarEscena builds it
FormaTexto == NewText(<<300, 200>>, "White", "Texto")

\* one shape of each of the eight classes
ShapeSamples == {TodosBotones[i] : i \in DOMAIN TodosBotones} \cup {FormaTexto}

InRange(scene, i) == i >= 0 /\ i < Len(scene)

AnyNull(scene) == \E i \in 1..Len(scene) : IsNull(scene[i])

\* formas.erase(formas.begin() + i)
Erase(scene, i) == SubSeq(scene, 1, i) \o SubSeq(scene, i + 2, Len(scene))

\* formas.insert(formas.begin() + i, std::move(s))
Insert(scene, i, s) ==
    SubSeq(scene, 1, i) \o <<s>> \o SubSeq(scene, i + 1, Len(scene))

\* formas[i] = std::move(s)
Replace(scene, i, s) == [scene EXCEPT ![i + 1] = s]

ApplyUndoEraseFirst(scene, action) ==
    CASE action.type = "Add" ->
           IF InRange(scene, action.index)
           THEN [formas |-> Erase(scene, 0), crashed |-> FALSE]
           ELSE [formas |-> scene, crashed |-> TRUE]
      [] action.type = "Remove" ->
           IF action.index >= 0 /\ action.index <= Len(scene)
           THEN [formas |-> Insert(scene, action.index, action.shape),
                 crashed |-> FALSE]
           ELSE [formas |-> scene, crashed |-> TRUE]
      [] action.type = "Modify" ->
           IF InRange(scene, action.index)
           THEN [formas |-> Replace(scene, action.index, action.shape),
                 crashed |-> FALSE]
           ELSE [formas |-> scene, crashed |-> TRUE]

\* the branches of "Deshacer" and of Ctrl+Z on the action undo() returned;
\* an index outside the vector is undefined behaviour and ends the process
ApplyUndo(scene, action) ==
    CASE action.type = "Add" ->
           IF InRange(scene, action.index)
           THEN [formas |-> Erase(scene, action.index), crashed |-> FALSE]
           ELSE [formas |-> scene, crashed |-> TRUE]
      [] action.type = "Remove" ->
           IF action.index >= 0 /\ action.index <= Len(scene)
           THEN [formas |-> Insert(scene, action.index, action.shape),
                 crashed |-> FALSE]
           ELSE [formas |-> scene, crashed |-> TRUE]
      [] action.type = "Modify" ->
           IF InRange(scene, action.index)
           THEN [formas |-> Replace(scene, action.index, action.shape),
                 crashed |-> FALSE]
           ELSE [formas |-> scene, crashed |-> TRUE]

\* ApplyRedo with the Modify branch written as an erase and a push_back
ApplyRedoModifyAtEnd(scene, action) ==
    CASE action.type = "Add" ->
           IF action.index >= 0 /\ action.index <= Len(scene)
           THEN [formas |-> Insert(scene, action.index, action.shape),
                 crashed |-> FALSE]
           ELSE [formas |-> scene, crashed |-> TRUE]
      [] action.type = "Remove" ->
           IF InRange(scene, action.index)
           THEN [formas |-> Erase(scene, action.index), crashed |-> FALSE]
           ELSE [formas |-> scene, crashed |-> TRUE]
      [] action.type = "Modify" ->
           IF InRange(scene, action.index)
           THEN [formas |-> Append(Erase(scene, action.index), action.shape),
                 crashed |-> FALSE]
           ELSE [formas |-> scene, crashed |-> TRUE]

\* the branches of "Rehacer" and of Ctrl+Y on the action redo() returned
ApplyRedo(scene, action) ==
    CASE action.type = "Add" ->
           IF action.index >= 0 /\ action.index <= Len(scene)
           THEN [formas |-> Insert(scene, action.index, action.shape),
                 crashed |-> FALSE]
           ELSE [formas |-> scene, crashed |-> TRUE]
      [] action.type = "Remove" ->
           IF InRange(scene, action.index)
           THEN [formas |-> Erase(scene, action.index), crashed |-> FALSE]
           ELSE [formas |-> scene, crashed |-> TRUE]
      [] action.type = "Modify" ->
           IF InRange(scene, action.index)
           THEN [formas |-> Replace(scene, action.index, action.shape),
                 crashed |-> FALSE]
           ELSE [formas |-> scene, crashed |-> TRUE]

\* one frame on one Scene entry: draw, then updateShape
FrameShape(s, dt) == IF IsNull(s) THEN s ELSE updateShape(draw(s), dt)

\* the draw loop and the updateShape loop over the Scene
FrameScene(scene, dt) == [i \in 1..Len(scene) |-> FrameShape(scene[i], dt)]

\* the history of a recorded mutation: its kind and index, the Scene before
\* and after it, and the undo and redo that followed it at once
Mutation(kind, index, pre, post) ==
    [kind |-> kind, index |-> index, pre |-> pre, post |-> post,
     steps |-> <<>>]

MarkAfterUndo ==
    IF mark.kind \in ActionTypes /\ mark.steps = <<>>
    THEN [mark EXCEPT !.steps = <<"undo">>]
    ELSE NoMark

MarkAfterRedo ==
    IF mark.kind \in ActionTypes /\ mark.steps = <<"undo">>
    THEN [mark EXCEPT !.steps = <<"undo", "redo">>]
    ELSE NoMark

MarkAfterFrame(dt) ==
    IF mark.kind = "none"
    THEN mark
    ELSE [mark EXCEPT !.pre = FrameScene(mark.pre, dt),
                      !.post = FrameScene(mark.post, dt)]

\* the process ends on a null dereference or an access outside the vector
Crash ==
    /\ crashed' = TRUE
    /\ mark' = NoMark
    /\ UNCHANGED <<formas, formaSeleccionada, arrastrando, formaArrastrada,
                   offset, undoStack, redoStack, phase>>

Running(p) == ~crashed /\ phase = p

\* sf::Event::MouseButtonPressed, left button: the topmost shape whose
\* bounds hold the mouse is selected and starts to be dragged
MouseButtonPressed ==
    \E m \in MousePoints :
        /\ Running("events")
        /\ UNCHANGED <<mgrVars, mgrLog, archivo, heap, animVars, phase>>
        /\ LET n == Len(formas)
               bad == {i \in 1..n : ~HasSfShape(formas[i])}
               hits == {i \in 1..n : /\ HasSfShape(formas[i])
                                     /\ contains(getGlobalBounds(formas[i]), m)}
               stop == hits \cup bad
           IN  IF stop = {}
               THEN UNCHANGED hostVars
               ELSE LET k == SetMax(stop)
                    IN  IF k \in bad \/ bad # {}
                        THEN Crash
                        ELSE /\ formas' = [i \in 1..n |->
                                             IF i = k THEN select(formas[i])
                                                      ELSE deselect(formas[i])]
                             /\ arrastrando' = TRUE
                             /\ formaArrastrada' = k - 1
                             /\ offset' = <<formas[k].position[1] - m[1],
                                            formas[k].position[2] - m[2]>>
                             /\ formaSeleccionada' = k - 1
                             /\ mark' = Mutation("Drag", k - 1, formas', formas')
                             /\ UNCHANGED crashed

\* sf::Event::MouseButtonReleased, left button: a drag in progress is
\* recorded as a Modify action with a clone of the dragged shape
MouseButtonReleased ==
    /\ Running("events")
    /\ UNCHANGED <<animVars, mgrLog, archivo, heap, phase>>
    /\ IF arrastrando /\ formaArrastrada # -1
       THEN IF ~InRange(formas, formaArrastrada)
               \/ IsNull(formas[formaArrastrada + 1])
            THEN Crash
            ELSE /\ Len(undoStack) < MaxHist
                 /\ LET action == [type |-> "Modify",
                                   shape |-> clone(formas[formaArrastrada + 1]),
                                   index |-> formaArrastrada]
                        m == addAction(undoStack, redoStack, action)
                    IN  /\ undoStack' = m.undoStack
                        /\ redoStack' = m.redoStack
                 /\ arrastrando' = FALSE
                 /\ formaArrastrada' = -1
                 /\ mark' = IF mark.kind = "Drag"
                            THEN [mark EXCEPT !.kind = "Modify", !.post = formas]
                            ELSE NoMark
                 /\ UNCHANGED <<formas, formaSeleccionada, offset, crashed>>
       ELSE /\ arrastrando' = FALSE
            /\ formaArrastrada' = -1
            /\ UNCHANGED <<formas, formaSeleccionada, offset, crashed, mark,
                           mgrVars>>

\* sf::Event::MouseMoved while dragging: the dragged shape follows the mouse
MouseMoved ==
    \E m \in MousePoints :
        /\ Running("events")
        /\ arrastrando
        /\ UNCHANGED <<mgrVars, mgrLog, archivo, heap, animVars, phase>>
        /\ IF InRange(formas, formaArrastrada)
           THEN IF ~HasSfShape(formas[formaArrastrada + 1])
                THEN Crash
                ELSE /\ formas' = Replace(formas, formaArrastrada,
                                     setPosition(formas[formaArrastrada + 1],
                                                 <<m[1] + offset[1],
                                                   m[2] + offset[2]>>))
                     /\ mark' = IF mark.kind = "Drag" THEN mark ELSE NoMark
                     /\ UNCHANGED <<formaSeleccionada, arrastrando,
                                    formaArrastrada, offset, crashed>>
           ELSE UNCHANGED hostVars

\* the body shared by Ctrl+Z and "Deshacer"
Deshacer(next) ==
    /\ canUndo(undoStack)
    /\ UNCHANGED <<animVars, mgrLog, archivo, heap>>
    /\ LET m == undo(undoStack, redoStack)
           r == ApplyUndo(formas, m.ret)
       IN  IF r.crashed
           THEN Crash
           ELSE /\ formas' = r.formas
                /\ undoStack' = m.undoStack
                /\ redoStack' = m.redoStack
                /\ mark' = MarkAfterUndo
                /\ phase' = next
                /\ UNCHANGED <<formaSeleccionada, arrastrando, formaArrastrada,
                               offset, crashed>>

\* the body shared by Ctrl+Y and "Rehacer"
Rehacer(next) ==
    /\ canRedo(redoStack)
    /\ UNCHANGED <<animVars, mgrLog, archivo, heap>>
    /\ LET m == redo(undoStack, redoStack)
           r == ApplyRedo(formas, m.ret)
       IN  IF r.crashed
           THEN Crash
           ELSE /\ formas' = r.formas
                /\ undoStack' = m.undoStack
                /\ redoStack' = m.redoStack
                /\ mark' = MarkAfterRedo
                /\ phase' = next
                /\ UNCHANGED <<formaSeleccionada, arrastrando, formaArrastrada,
                               offset, crashed>>

\* sf::Event::KeyPressed, Ctrl+Z
KeyCtrlZ == Running("events") /\ Deshacer("events")

\* sf::Event::KeyPressed, Ctrl+Y
KeyCtrlY == Running("events") /\ Rehacer("events")

\* pollEvent returns false: the ImGui windows come next
EndPoll ==
    /\ Running("events")
    /\ phase' = "gui"
    /\ UNCHANGED <<formas, formaSeleccionada, arrastrando, formaArrastrada,
                   offset, crashed, mark, mgrVars, mgrLog, archivo, heap, animVars>>

\* an "Añadir" button: the shape is appended and an Add action recorded with
\* its clone; the list box below the buttons then reads every Scene entry
GuiAnadir ==
    \E s \in Botones :
        /\ Running("gui")
        /\ Len(formas) < MaxShapes
        /\ Len(undoStack) < MaxHist
        /\ UNCHANGED <<animVars, mgrLog, archivo, heap>>
        /\ LET scene == Append(formas, s)
               action == [type |-> "Add", shape |-> clone(Last(scene)),
                          index |-> Len(scene) - 1]
               m == addAction(undoStack, redoStack, action)
           IN  IF AnyNull(scene)
               THEN Crash
               ELSE /\ formas' = scene
                    /\ undoStack' = m.undoStack
                    /\ redoStack' = m.redoStack
                    /\ mark' = Mutation("Add", action.index, formas, scene)
                    /\ phase' = "render"
                    /\ UNCHANGED <<formaSeleccionada, arrastrando,
                                   formaArrastrada, offset, crashed>>

\* an entry of the list box is clicked: it is selected, the others deselected
GuiSeleccionar ==
    \E i \in 0..(Len(formas) - 1) :
        /\ Running("gui")
        /\ UNCHANGED <<mgrVars, mgrLog, archivo, heap, animVars>>
        /\ IF \E j \in 1..Len(formas) : ~HasSfShape(formas[j])
           THEN Crash
           ELSE /\ formas' = [j \in 1..Len(formas) |->
                                IF j = i + 1 THEN select(formas[j])
                                             ELSE deselect(formas[j])]
                /\ formaSeleccionada' = i
                /\ mark' = NoMark
                /\ phase' = "render"
                /\ UNCHANGED <<arrastrando, formaArrastrada, offset, crashed>>

\* "Eliminar Forma": a Remove action is recorded with a clone of the selected
\* shape, which is then erased
GuiEliminar ==
    /\ Running("gui")
    /\ InRange(formas, formaSeleccionada)
    /\ Len(undoStack) < MaxHist
    /\ UNCHANGED <<animVars, mgrLog, archivo, heap>>
    /\ IF AnyNull(formas)
       THEN Crash
       ELSE /\ LET action == [type |-> "Remove",
                              shape |-> clone(formas[formaSeleccionada + 1]),
                              index |-> formaSeleccionada]
                   m == addAction(undoStack, redoStack, action)
               IN  /\ undoStack' = m.undoStack
                   /\ redoStack' = m.redoStack
            /\ formas' = Erase(formas, formaSeleccionada)
            /\ formaSeleccionada' = -1
            /\ mark' = Mutation("Remove", formaSeleccionada, formas, formas')
            /\ phase' = "render"
            /\ UNCHANGED <<arrastrando, formaArrastrada, offset, crashed>>

\* the "Deshacer" button, reached after the list box has read every entry
GuiDeshacer ==
    /\ Running("gui")
    /\ IF AnyNull(formas)
       THEN canUndo(undoStack) /\ Crash /\ UNCHANGED <<animVars, mgrLog, archivo, heap>>
       ELSE Deshacer("render")

\* the "Rehacer" button, reached after the list box has read every entry
GuiRehacer ==
    /\ Running("gui")
    /\ IF AnyNull(formas)
       THEN canRedo(redoStack) /\ Crash /\ UNCHANGED <<animVars, mgrLog, archivo, heap>>
       ELSE Rehacer("render")

\* no widget is clicked in this iteration: the list box reads every entry
GuiNada ==
    /\ Running("gui")
    /\ UNCHANGED <<mgrVars, mgrLog, archivo, heap, animVars>>
    /\ IF AnyNull(formas)
       THEN Crash
       ELSE /\ phase' = "render"
            /\ UNCHANGED <<formas, formaSeleccionada, arrastrando,
                           formaArrastrada, offset, crashed, mark>>

\* the draw loop and the updateShape loop, with the elapsed time of the
\* iteration
Frame ==
    \E dt \in DeltaTimes :
        /\ Running("render")
        /\ UNCHANGED <<mgrVars, mgrLog, archivo, heap, animVars>>
        /\ IF AnyNull(formas)
           THEN Crash
           ELSE /\ formas' = FrameScene(formas, dt)
                /\ mark' = MarkAfterFrame(dt)
                /\ phase' = "events"
                /\ UNCHANGED <<formaSeleccionada, arrastrando, formaArrastrada,
                               offset, crashed>>

Init == HostInit /\ MgrStateInit /\ AnimIdle

Next ==
    \/ MouseButtonPressed
    \/ MouseButtonReleased
    \/ MouseMoved
    \/ KeyCtrlZ
    \/ KeyCtrlY
    \/ EndPoll
    \/ GuiAnadir
    \/ GuiSeleccionar
    \/ GuiEliminar
    \/ GuiDeshacer
    \/ GuiRehacer
    \/ GuiNada
    \/ Frame

Spec == Init /\ [][Next]_vars

----------------------------------------------------------------------------
(* SpecMgr: the UndoRedoManager called through its public methods, in any  *)
(* order, with actions as main builds them over a Scene: a type, an index  *)
(* and a clone of the shape at that index.                                 *)

MgrScene == <<BotonCirculo, BotonRectangulo, BotonTriangulo, BotonElipse>>

MgrActions ==
    {[type |-> t, shape |-> clone(MgrScene[i + 1]), index |-> i] :
        t \in ActionTypes, i \in 0..MaxIndex}

\* the Scene the actions are built over: its first MaxIndex + 1 shapes
MgrInit ==
    /\ formas = SubSeq(MgrScene, 1, MaxIndex + 1)
    /\ LocalsInit
    /\ MgrStateInit
    /\ AnimIdle

MgrAddAction ==
    \E a \in MgrActions :
        /\ Len(undoStack) < MgrMaxHist
        /\ LET m == addAction(undoStack, redoStack, a)
           IN  /\ undoStack' = m.undoStack
               /\ redoStack' = m.redoStack
               /\ mgrLog' = Logged(mgrLog, LogEntry("addAction", a, EmptyAction))
        /\ UNCHANGED <<hostVars, animVars, archivo, heap>>

MgrUndoApplying ==
    /\ LET m == undo(undoStack, redoStack)
       IN  /\ undoStack' = m.undoStack
           /\ redoStack' = m.redoStack
           /\ mgrLog' = Logged(mgrLog, LogEntry("undo", EmptyAction, m.ret))
           /\ formas' = IF canUndo(undoStack) /\ InRange(formas, m.ret.index)
                        THEN Erase(formas, m.ret.index)
                        ELSE formas
    /\ UNCHANGED <<formaSeleccionada, arrastrando, formaArrastrada, offset,
                   phase, crashed, mark, animVars, archivo, heap>>

MgrUndo ==
    /\ LET m == undo(undoStack, redoStack)
       IN  /\ undoStack' = m.undoStack
           /\ redoStack' = m.redoStack
           /\ mgrLog' = Logged(mgrLog, LogEntry("undo", EmptyAction, m.ret))
    /\ UNCHANGED <<hostVars, animVars, archivo, heap>>

MgrRedo ==
    /\ LET m == redo(undoStack, redoStack)
       IN  /\ undoStack' = m.undoStack
           /\ redoStack' = m.redoStack
           /\ mgrLog' = Logged(mgrLog, LogEntry("redo", EmptyAction, m.ret))
    /\ UNCHANGED <<hostVars, animVars, archivo, heap>>

MgrNext == MgrAddAction \/ MgrUndo \/ MgrRedo

SpecMgr == MgrInit /\ [][MgrNext]_vars

----------------------------------------------------------------------------
(* SpecAnim: one shape of any of the eight classes, as its constructor     *)
(* leaves it, driven through enableAnimation, setRotationSpeed (where the   *)
(* class has one), updateShape and the draw and update of a loop iteration. *)

\* the values the "Velocidad de Rotación" slider (0 to 360) is moved to
Speeds == {0, 90, 360}

\* the history of one updateShape call: the shape before it and the elapsed
\* time it was given
Updated(s, dt) == [kind |-> "updateShape", pre |-> s, dt |-> dt]

AnimShapes == ShapeSamples

AnimInit ==
    /\ HostInit
    /\ MgrStateInit
    /\ anim \in AnimShapes
    /\ ticks = 0

AnimEnable ==
    \E enable \in BOOLEAN :
        /\ anim' = enableAnimation(anim, enable)
        /\ mark' = NoMark
        /\ UNCHANGED <<ticks, sceneVars, mgrVars, mgrLog, archivo, heap>>

AnimSetRotationSpeed ==
    \E speed \in Speeds :
        /\ anim.cls \in RotatingClasses
        /\ anim' = setRotationSpeed(anim, speed)
        /\ mark' = NoMark
        /\ UNCHANGED <<ticks, sceneVars, mgrVars, mgrLog, archivo, heap>>

\* the intervals setBlinkInterval is called with, in ticks
BlinkIntervals == {BlinkInterval, 3}

AnimSetBlinkInterval ==
    \E interval \in BlinkIntervals :
        /\ anim.cls = "Text"
        /\ anim' = setBlinkInterval(anim, interval)
        /\ mark' = NoMark
        /\ UNCHANGED <<ticks, sceneVars, mgrVars, mgrLog, archivo, heap>>

AnimUpdate ==
    \E dt \in DeltaTimes :
        /\ ticks < MaxTicks
        /\ anim' = updateShape(anim, dt)
        /\ ticks' = ticks + 1
        /\ mark' = Updated(anim, dt)
        /\ UNCHANGED <<sceneVars, mgrVars, mgrLog, archivo, heap>>

\* the history of one iteration of the main loop on one shape: the shape
\* before it, the elapsed time and the object window.draw was handed
Framed(s, dt) ==
    [kind |-> "frame", pre |-> s, dt |-> dt, shown |-> RenderedOf(draw(s))]

\* the shape's part of one iteration of the main loop: the draw loop, then
\* the updateShape loop
AnimFrame ==
    \E dt \in DeltaTimes :
        /\ ticks < MaxTicks
        /\ anim' = FrameShape(anim, dt)
        /\ ticks' = ticks + 1
        /\ mark' = Framed(anim, dt)
        /\ UNCHANGED <<sceneVars, mgrVars, mgrLog, archivo, heap>>

AnimNext ==
    \/ AnimEnable
    \/ AnimSetRotationSpeed
    \/ AnimSetBlinkInterval
    \/ AnimUpdate
    \/ AnimFrame

SpecAnim == AnimInit /\ [][AnimNext]_vars

----------------------------------------------------------------------------
(* SpecShape: one shape of any of the eight classes, as its constructor    *)
(* leaves it, driven through the public methods of ShapeBase.  Every one   *)
(* of setPosition, setRotation, setScale, setColor, select and deselect    *)
(* goes through shapePtr; on a shape whose constructor made no shapePtr    *)
(* the call dereferences a null pointer and the process ends.              *)

\* the values the edit panel hands to the setters
Positions == {<<400, 300>>, <<100, 200>>}

Rotations == {0, 90}

Scales == {<<100, 100>>, <<200, 50>>}

Colors == {"Green", "Red"}

ShapeInit ==
    /\ HostInit
    /\ MgrStateInit
    /\ anim \in ShapeSamples
    /\ ticks = 0

\* a call of a ShapeBase method that goes through shapePtr
ThroughShapePtr(result) ==
    /\ ~crashed
    /\ IF HasSfShape(anim)
       THEN anim' = result /\ UNCHANGED crashed
       ELSE crashed' = TRUE /\ UNCHANGED anim
    /\ UNCHANGED <<formas, formaSeleccionada, arrastrando, formaArrastrada,
                   offset, phase, mark, ticks, mgrVars, mgrLog, archivo, heap>>

ShSetPosition == \E pos \in Positions : ThroughShapePtr(setPosition(anim, pos))

ShSetRotation == \E rot \in Rotations : ThroughShapePtr(setRotation(anim, rot))

ShSetScale == \E scl \in Scales : ThroughShapePtr(setScale(anim, scl))

ShSetColor == \E col \in Colors : ThroughShapePtr(setColor(anim, col))

ShSelect == ThroughShapePtr(select(anim))

ShDeselect == ThroughShapePtr(deselect(anim))

ShEnableAnimation ==
    \E enable \in BOOLEAN :
        /\ ~crashed
        /\ anim' = enableAnimation(anim, enable)
        /\ UNCHANGED <<sceneVars, mark, ticks, mgrVars, mgrLog, archivo, heap>>

ShapeNext ==
    \/ ShSetPosition
    \/ ShSetRotation
    \/ ShSetScale
    \/ ShSetColor
    \/ ShSelect
    \/ ShDeselect
    \/ ShEnableAnimation

SpecShape == ShapeInit /\ [][ShapeNext]_vars

----------------------------------------------------------------------------
(* SpecFile: guardarEscena and cargarEscena on Scenes of up to             *)
(* MaxFileShapes shapes.  Between a save and a load the file may lose its  *)
(* tail (it keeps the declared count and the first k records) or become    *)
(* impossible to open.                                                     *)

\* a Circle after the edit panel has changed its rotation, scale, speed
\* and animation
CirculoEditado ==
    setScale(setRotation(enableAnimation(setRotationSpeed(BotonCirculo, 90),
                                         TRUE), 90), <<200, 50>>)

FileSamples == ShapeSamples \cup {CirculoEditado}

FileScenes ==
    UNION {[1..n -> FileSamples] : n \in 0..MaxFileShapes}

\* the history of the file: the Scene last saved to it, how many of its
\* records are still complete, and the Scene before the last load
FileMark(kind, saved, complete, pre) ==
    [kind |-> kind, saved |-> saved, complete |-> complete, pre |-> pre]

\* main some time after its start: a Scene has been built, nothing is
\* selected or dragged and there is no scene file yet
FileInit ==
    /\ formas \in FileScenes
    /\ LocalsInit
    /\ MgrStateInit
    /\ AnimIdle

FileGuardar ==
    /\ ~crashed
    /\ archivo' = guardarEscena(formas)
    /\ mark' = FileMark("Save", formas, Len(formas), formas)
    /\ UNCHANGED <<sceneVars, mgrVars, mgrLog, animVars, heap>>

\* the file loses everything after its first k records
FileTruncar ==
    \E k \in 0..(MaxFileShapes - 1) :
        /\ ~crashed
        /\ mark.kind = "Save"
        /\ k < Len(mark.saved)
        /\ archivo' = File(<<Num(Len(mark.saved))>>
                           \o EncodeShapes(SubSeq(mark.saved, 1, k)))
        /\ mark' = FileMark("Truncate", mark.saved, k, formas)
        /\ UNCHANGED <<sceneVars, mgrVars, mgrLog, animVars, heap>>

\* the file is removed or made unreadable
FileQuitar ==
    /\ ~crashed
    /\ archivo # NoFile
    /\ archivo' = NoFile
    /\ mark' = FileMark("Remove", <<>>, 0, formas)
    /\ UNCHANGED <<sceneVars, mgrVars, mgrLog, animVars, heap>>

FileCargar ==
    \E ch \in IndetChoices :
        /\ ~crashed
        /\ LET r == cargarEscena(archivo, formas, ch)
           IN  /\ formas' = r.formas
               /\ crashed' = r.crashed
        /\ mark' = IF mark.kind = "none"
                   THEN FileMark("Load", <<>>, 0, formas)
                   ELSE [mark EXCEPT !.kind = "Load", !.pre = formas]
        /\ UNCHANGED <<formaSeleccionada, arrastrando, formaArrastrada,
                       offset, phase, archivo, heap, mgrVars, mgrLog, animVars>>

FileNext == FileGuardar \/ FileTruncar \/ FileQuitar \/ FileCargar

SpecFile == FileInit /\ [][FileNext]_vars

----------------------------------------------------------------------------
(* SpecOwn: who owns which shape object.  The Scene and the two stacks     *)
(* hold std::unique_ptr<ShapeBase>; here a shape is the object it points   *)
(* to, Obj(n) for the n-th object allocated, and the state of the object   *)
(* is left out.  The operations are those of main that allocate, move or   *)
(* destroy shapes: add, delete, the release of a drag, undo and redo.      *)

Obj(n) == [addr |-> n]

\* the history of an undo or a redo: the action as it lay on its stack and
\* the Scene it was applied to
Applied(op, action, scene) ==
    [kind |-> "Applied", op |-> op, action |-> action, pre |-> scene]

\* the shapes of one "Añadir" click, std::make_unique and clone(): two new
\* objects
OwnAnadir ==
    /\ ~crashed
    /\ heap + 2 <= MaxObjects
    /\ LET scene == Append(formas, Obj(heap + 1))
           action == [type |-> "Add", shape |-> Obj(heap + 2),
                      index |-> Len(scene) - 1]
           m == addAction(undoStack, redoStack, action)
       IN  /\ formas' = scene
           /\ undoStack' = m.undoStack
           /\ redoStack' = m.redoStack
    /\ heap' = heap + 2
    /\ UNCHANGED <<formaSeleccionada, arrastrando, formaArrastrada, offset,
                   phase, crashed, mgrLog, animVars, archivo>>
    /\ mark' = NoMark

\* "Eliminar Forma" on the entry i: its clone goes to the history, the
\* entry is erased and its object destroyed
OwnEliminar ==
    \E i \in 0..(Len(formas) - 1) :
        /\ ~crashed
        /\ heap + 1 <= MaxObjects
        /\ IF IsNull(formas[i + 1])
           THEN /\ crashed' = TRUE
                /\ UNCHANGED <<formas, mgrVars, heap>>
           ELSE /\ LET action == [type |-> "Remove", shape |-> Obj(heap + 1),
                                  index |-> i]
                       m == addAction(undoStack, redoStack, action)
                   IN  /\ undoStack' = m.undoStack
                       /\ redoStack' = m.redoStack
                /\ formas' = Erase(formas, i)
                /\ heap' = heap + 1
                /\ UNCHANGED crashed
        /\ mark' = NoMark
        /\ UNCHANGED <<formaSeleccionada, arrastrando, formaArrastrada,
                       offset, phase, mgrLog, animVars, archivo>>

\* the release of a drag of the entry i: its clone goes to the history
OwnSoltar ==
    \E i \in 0..(Len(formas) - 1) :
        /\ ~crashed
        /\ heap + 1 <= MaxObjects
        /\ IF IsNull(formas[i + 1])
           THEN /\ crashed' = TRUE
                /\ UNCHANGED <<mgrVars, heap>>
           ELSE /\ LET action == [type |-> "Modify", shape |-> Obj(heap + 1),
                                  index |-> i]
                       m == addAction(undoStack, redoStack, action)
                   IN  /\ undoStack' = m.undoStack
                       /\ redoStack' = m.redoStack
                /\ heap' = heap + 1
                /\ UNCHANGED crashed
        /\ mark' = NoMark
        /\ UNCHANGED <<formas, formaSeleccionada, arrastrando,
                       formaArrastrada, offset, phase, mgrLog, animVars,
                       archivo>>

\* "Deshacer" with the application skipped when the index is outside the
\* Scene
OwnDeshacerGuarded ==
    /\ ~crashed
    /\ canUndo(undoStack)
    /\ LET m == undo(undoStack, redoStack)
           r == ApplyUndo(formas, m.ret)
       IN  /\ formas' = r.formas
           /\ undoStack' = m.undoStack
           /\ redoStack' = m.redoStack
    /\ mark' = Applied("undo", Last(undoStack), formas)
    /\ UNCHANGED <<formaSeleccionada, arrastrando, formaArrastrada, offset,
                   phase, crashed, mgrLog, animVars, archivo, heap>>

\* "Deshacer": the action undo() returns is applied to the Scene
OwnDeshacer ==
    /\ ~crashed
    /\ canUndo(undoStack)
    /\ LET m == undo(undoStack, redoStack)
           r == ApplyUndo(formas, m.ret)
       IN  /\ formas' = r.formas
           /\ crashed' = r.crashed
           /\ undoStack' = IF r.crashed THEN undoStack ELSE m.undoStack
           /\ redoStack' = IF r.crashed THEN redoStack ELSE m.redoStack
    /\ mark' = Applied("undo", Last(undoStack), formas)
    /\ UNCHANGED <<formaSeleccionada, arrastrando, formaArrastrada, offset,
                   phase, mgrLog, animVars, archivo, heap>>

\* "Guardar Escena": the file gets the Scene's size and one record per
\* shape; only the size is kept here
OwnGuardar ==
    /\ ~crashed
    /\ IF AnyNull(formas)
       THEN crashed' = TRUE /\ UNCHANGED archivo
       ELSE archivo' = File(<<Num(Len(formas))>>) /\ UNCHANGED crashed
    /\ mark' = NoMark
    /\ UNCHANGED <<formas, formaSeleccionada, arrastrando, formaArrastrada,
                   offset, phase, mgrVars, mgrLog, animVars, heap>>

\* "Cargar Escena": a file that opens has the Scene cleared and then, for
\* each of the declared records, at most one new shape pushed; the history
\* is left as it is
OwnCargar ==
    /\ ~crashed
    /\ archivo.open
    /\ \E k \in 0..archivo.tokens[1].n :
          /\ heap + k <= MaxObjects
          /\ formas' = [i \in 1..k |-> Obj(heap + i)]
          /\ heap' = heap + k
    /\ mark' = NoMark
    /\ UNCHANGED <<formaSeleccionada, arrastrando, formaArrastrada, offset,
                   phase, crashed, mgrVars, mgrLog, animVars, archivo>>

OwnRehacer ==
    /\ ~crashed
    /\ canRedo(redoStack)
    /\ LET m == redo(undoStack, redoStack)
           r == ApplyRedo(formas, m.ret)
       IN  /\ formas' = r.formas
           /\ crashed' = r.crashed
           /\ undoStack' = IF r.crashed THEN undoStack ELSE m.undoStack
           /\ redoStack' = IF r.crashed THEN redoStack ELSE m.redoStack
    /\ mark' = Applied("redo", Last(redoStack), formas)
    /\ UNCHANGED <<formaSeleccionada, arrastrando, formaArrastrada, offset,
                   phase, mgrLog, animVars, archivo, heap>>

OwnNext ==
    \/ OwnAnadir
    \/ OwnEliminar
    \/ OwnSoltar
    \/ OwnGuardar
    \/ OwnCargar
    \/ OwnDeshacer
    \/ OwnRehacer

SpecOwn == Init /\ [][OwnNext]_vars

----------------------------------------------------------------------------
(* Claims about the UndoRedoManager, checked under SpecMgr. *)

LastCall == Last(mgrLog)

Carries(a) == a.shape # NullShape

\* C1: when undoHistory is non-empty, the Action undo() returns has the type,
\* the index and the non-empty Shape snapshot of the action that was on top
\* of undoHistory before the call; redo() likewise with redoHistory.
C1_ReturnedActionIsTop ==
    mgrLog # <<>> =>
        /\ (LastCall.op = "undo" /\ canUndo(LastCall.undoBefore)) =>
              /\ LastCall.ret = Last(LastCall.undoBefore)
              /\ Carries(LastCall.ret)
        /\ (LastCall.op = "redo" /\ canRedo(LastCall.redoBefore)) =>
              /\ LastCall.ret = Last(LastCall.redoBefore)
              /\ Carries(LastCall.ret)

\* C6: record(action) pushes the action on top of undoHistory and empties
\* redoHistory: right after it canRedo() is false, however many actions were
\* redo-able before, and canUndo() is true.
C6_RecordClearsRedo ==
    (mgrLog # <<>> /\ LastCall.op = "addAction") =>
        /\ undoStack = Append(LastCall.undoBefore, LastCall.arg)
        /\ redoStack = <<>>
        /\ ~canRedo(redoStack)
        /\ canUndo(undoStack)

C6_Witness ==
    /\ mgrLog # <<>>
    /\ LastCall.op = "addAction"
    /\ Len(LastCall.redoBefore) >= 2

\* C7: with undoHistory non-empty, undo() removes exactly its top action and
\* pushes that same action, still carrying its snapshot, on top of
\* redoHistory, all other entries of both histories staying as they were and
\* in order; every action held in either history carries a Shape snapshot.
C7_UndoMovesTopToRedo ==
    /\ (mgrLog # <<>> /\ LastCall.op = "undo"
                      /\ canUndo(LastCall.undoBefore)) =>
          /\ undoStack = Front(LastCall.undoBefore)
          /\ redoStack = Append(LastCall.redoBefore, Last(LastCall.undoBefore))
    /\ \A i \in 1..Len(undoStack) : Carries(undoStack[i])
    /\ \A i \in 1..Len(redoStack) : Carries(redoStack[i])

C7_Witness ==
    /\ mgrLog # <<>>
    /\ LastCall.op = "undo"
    /\ Len(LastCall.undoBefore) >= 2
    /\ Carries(Last(redoStack))

\* C8: redo() is the inverse of undo() on the two histories: undo() on a
\* non-empty undoHistory followed at once by redo() leaves both histories as
\* they were before the undo(), and neither call changes the total number of
\* actions held.
C8_RedoInvertsUndo ==
    /\ (Len(mgrLog) = 2 /\ mgrLog[1].op = "undo" /\ mgrLog[2].op = "redo"
                        /\ canUndo(mgrLog[1].undoBefore)) =>
          /\ undoStack = mgrLog[1].undoBefore
          /\ redoStack = mgrLog[1].redoBefore
    /\ (mgrLog # <<>> /\ LastCall.op \in {"undo", "redo"}) =>
          Len(undoStack) + Len(redoStack)
            = Len(LastCall.undoBefore) + Len(LastCall.redoBefore)

C8_Witness ==
    /\ Len(mgrLog) = 2
    /\ mgrLog[1].op = "undo"
    /\ mgrLog[2].op = "redo"
    /\ canUndo(mgrLog[1].undoBefore)
    /\ canRedo(mgrLog[1].redoBefore)

\* C16: the manager is a pure ledger: none of record (addAction), canUndo,
\* canRedo, undo and redo changes the Scene, its length, its order or the
\* state of any of its shapes; the Scene changes that go with an undo or a
\* redo are made by the caller.
C16_ManagerLeavesScene == formas = SubSeq(MgrScene, 1, MaxIndex + 1)

C16_Witness ==
    /\ Len(mgrLog) = 2
    /\ mgrLog[1].op = "undo"
    /\ canUndo(mgrLog[1].undoBefore)
    /\ mgrLog[2].op = "redo"
    /\ formas # <<>>
    /\ undoStack # <<>>

\* C9: undo() on an empty undoHistory, and redo() on an empty redoHistory,
\* is a no-op: it returns an action without a Shape snapshot, changes neither
\* history and reaches no error state.
C9_EmptyHistoryNoOp ==
    (/\ mgrLog # <<>>
     /\ \/ LastCall.op = "undo" /\ ~canUndo(LastCall.undoBefore)
        \/ LastCall.op = "redo" /\ ~canRedo(LastCall.redoBefore)) =>
        /\ ~Carries(LastCall.ret)
        /\ undoStack = LastCall.undoBefore
        /\ redoStack = LastCall.redoBefore
        /\ ~crashed

C9_Witness ==
    /\ mgrLog # <<>>
    /\ LastCall.op = "undo"
    /\ ~canUndo(LastCall.undoBefore)
    /\ canRedo(LastCall.redoBefore)

----------------------------------------------------------------------------
(* Claims about undo and redo in the host loop, checked under Spec. *)

\* two Scene entries are shapes equal in every field a caller can read
\* back: class, type tag, position, rotation, scale, colour, animated flag,
\* geometry and speeds
ObsEq(a, b) ==
    /\ ~IsNull(a)
    /\ ~IsNull(b)
    /\ a.cls = b.cls
    /\ a.type = b.type
    /\ a.position = b.position
    /\ a.rotation = b.rotation
    /\ a.scale = b.scale
    /\ a.color = b.color
    /\ a.isAnimated = b.isAnimated
    /\ a.geom = b.geom
    /\ a.rotationSpeed = b.rotationSpeed
    /\ a.scaleSpeed = b.scaleSpeed

SceneObsEq(s1, s2) ==
    /\ Len(s1) = Len(s2)
    /\ \A j \in 1..Len(s1) : ObsEq(s1[j], s2[j])

\* C2: deleting the shape at a valid index i (recording Remove(i, clone)) and
\* then performing one undo yields a Scene of the original length whose entry
\* at i is a shape observably equal to the deleted one, every other entry
\* unchanged and in its original position.
C2_DeleteThenUndoRestores ==
    (mark.kind = "Remove" /\ mark.steps = <<"undo">>) =>
        /\ Len(formas) = Len(mark.pre)
        /\ \A j \in 1..Len(mark.pre) :
              IF j = mark.index + 1
              THEN ObsEq(formas[j], mark.pre[j])
              ELSE formas[j] = mark.pre[j]

\* C3: after adding a shape (appended, Add recorded with index = size - 1),
\* undo and then redo leave the Scene observably equal to its state right
\* after the add.
C3_AddUndoRedoRestores ==
    (mark.kind = "Add" /\ mark.steps = <<"undo", "redo">>) =>
        SceneObsEq(formas, mark.post)

\* C4: adding one shape to any Scene S and then performing a single undo
\* restores the Scene exactly to S: same length, same shapes, same order.
C4_AddThenUndoRestores ==
    (mark.kind = "Add" /\ mark.steps = <<"undo">>) =>
        /\ ~crashed
        /\ formas = mark.pre

C4_Witness ==
    /\ mark.kind = "Add"
    /\ mark.steps = <<"undo">>
    /\ Len(mark.pre) >= 1
    /\ formas = mark.pre

\* C5: after a drag that moved the shape at index i, recorded as
\* Modify(i, snapshot) on release, a single undo restores the shape at i to
\* its state before the drag and leaves every other Scene entry unchanged.
C5_DragThenUndoRestores ==
    (mark.kind = "Modify" /\ mark.steps = <<"undo">>) =>
        /\ Len(formas) = Len(mark.pre)
        /\ \A j \in 1..Len(mark.pre) :
              IF j = mark.index + 1
              THEN ObsEq(formas[j], mark.pre[j])
              ELSE formas[j] = mark.pre[j]

\* C25: after any sequence of add, delete, drag, undo, redo and load, every
\* entry of the Scene is a live shape (no Scene slot holds a null shape), so
\* the draw and updateShape loops of a frame never touch an empty entry.
C25_NoNullEntry == ~AnyNull(formas)

\* a drag is in progress and the next event is about to be handled
Dragging == Running("events") /\ arrastrando /\ formaArrastrada # -1

\* C27: for any interleaving of events between the press that starts a drag
\* of the shape at index i and the matching release (Ctrl+Z and Ctrl+Y
\* included), the dragged index is a valid Scene index at the moment the
\* release handler clones the dragged shape: whenever a release can arrive,
\* formaArrastrada is in range.
C27_DraggedIndexValid == Dragging => InRange(formas, formaArrastrada)

\* the entries that carry the selected flag, as 0-based indices
Flagged(scene) ==
    {i \in 0..(Len(scene) - 1) :
        ~IsNull(scene[i + 1]) /\ scene[i + 1].isSelected}

\* C29: after any sequence of click-select, list-select, add, delete, undo,
\* redo and load, at most one shape carries the selected flag, and whenever
\* formaSeleccionada is a valid Scene index the shape at that index is the
\* one that carries it.
C29_SelectionConsistent ==
    ~crashed =>
        /\ Cardinality(Flagged(formas)) <= 1
        /\ InRange(formas, formaSeleccionada) =>
              Flagged(formas) = {formaSeleccionada}

\* the step is the release handler's, run while a drag is in progress: it
\* ends the drag, or it ends the process on the entry it clones
ReleaseHandled ==
    /\ Dragging
    /\ \/ ~arrastrando'
       \/ /\ crashed'
          /\ \/ ~InRange(formas, formaArrastrada)
             \/ IsNull(formas[formaArrastrada + 1])

\* C30: every left-button release that ends a drag started on a shape
\* records exactly one Modify action for the dragged index and thereby
\* empties redoHistory, whether or not the shape's position changed; a press
\* that hits no shape leaves both histories unchanged.
C30_ReleaseRecordsModify ==
    [][ReleaseHandled =>
          /\ ~crashed'
          /\ Len(undoStack') = Len(undoStack) + 1
          /\ Front(undoStack') = undoStack
          /\ Last(undoStack').type = "Modify"
          /\ Last(undoStack').index = formaArrastrada
          /\ redoStack' = <<>>]_vars

----------------------------------------------------------------------------
(* Claims about updateShape, checked under SpecAnim. *)

\* C10: for every shape with a rotation speed and animation enabled, every
\* rotation speed and every sequence of elapsed times, 0 <= rotation < 360
\* holds after each updateShape call.
C10_WrapLaw ==
    (ticks > 0 /\ anim.isAnimated) =>
        (0 <= anim.rotation /\ anim.rotation < 360)

\* C11: each updateShape(dt) on an animated shape with a rotation speed sets
\* rotation to (rotation + speed * dt) reduced modulo 360; a Circle at
\* rotation 0 with 90 degrees per second is at rotation 0 again after four
\* updates of one second.
C11_UpdateReducesModulo360 ==
    (mark.kind = "updateShape" /\ mark.pre.isAnimated) =>
        anim.rotation =
            (mark.pre.rotation + Turn(mark.pre.rotationSpeed, mark.dt)) % 360

\* C23: animation is active only when the animated flag is set: for every
\* class and every elapsed time dt, updateShape(dt) on a shape whose animated
\* flag is false leaves all of the shape's state unchanged (logical
\* attributes, rendered transform and colour, pulse-time accumulator, blink
\* timer, visibility); for a Cube, updateShape changes nothing even when the
\* flag is true.
C23_UpdateOnlyWhenAnimated ==
    (mark.kind = "updateShape"
       /\ (~mark.pre.isAnimated \/ mark.pre.cls = "Cube")) =>
        anim = mark.pre

C23_Witness ==
    /\ mark.kind = "updateShape"
    /\ ~mark.pre.isAnimated
    /\ mark.pre.cls = "Triangle"
    /\ mark.pre.rotationSpeed = 90
    /\ mark.pre.rotation = 45
    /\ mark.dt = 2
    /\ anim = mark.pre

\* C24: for an animated Text, each updateShape(dt) adds dt to the blink
\* timer; if the timer has then reached blinkInterval the visibility flag is
\* toggled once and the timer is reset to 0, otherwise visibility is
\* unchanged; hence after every update the timer is below blinkInterval, and
\* visibility never toggles while less than blinkInterval has accumulated
\* since the previous toggle.
C24_TextBlink ==
    (mark.kind = "updateShape" /\ mark.pre.cls = "Text"
                               /\ mark.pre.isAnimated) =>
        LET total == mark.pre.geom.blinkTimer + mark.dt
        IN  /\ IF total >= mark.pre.geom.blinkInterval
               THEN /\ anim.geom.visible = ~mark.pre.geom.visible
                    /\ anim.geom.blinkTimer = 0
               ELSE /\ anim.geom.visible = mark.pre.geom.visible
                    /\ anim.geom.blinkTimer = total
            /\ anim.geom.blinkTimer < anim.geom.blinkInterval

C24_Witness ==
    /\ mark.kind = "updateShape"
    /\ mark.pre.cls = "Text"
    /\ mark.pre.isAnimated
    /\ mark.pre.geom.blinkTimer = 2
    /\ mark.dt = 1
    /\ ~anim.geom.visible
    /\ anim.geom.blinkTimer = 0

\* C21: in every iteration of the host loop the animation is advanced
\* (updateShape on every shape) before the render pass (draw on every shape),
\* and the render pass is read-only: after the iteration each shape is what
\* updateShape alone makes of it, and what was drawn is its rendered state
\* after the update.
C21_UpdateThenReadOnlyDraw ==
    mark.kind = "frame" =>
        /\ anim = updateShape(mark.pre, mark.dt)
        /\ mark.shown = RenderedOf(anim)

----------------------------------------------------------------------------
(* Claims about single shapes, checked under SpecShape. *)

\* C12: for every one of the eight classes and every reachable shape state,
\* clone() returns a shape equal to the source in type tag, position,
\* rotation, scale, colour, animated flag and the class's own fields.
C12_CloneEqualsSource ==
    ~crashed => ObsEq(clone(anim), anim)

\* C28: the type tag getType() reports always identifies the class the
\* shape was created as, for all eight classes (a Cube reports Cube, a Text
\* reports Text), so that the dispatch on the tag in save, load and the edit
\* panel selects the fields of the shape's own class.
C28_TypeTagIsClass == anim.type = anim.cls

\* C14: setPosition, setRotation, setScale, setColor, select and deselect on
\* a shape of any class, Cube and Text included, complete without reaching
\* an error state.
C14_SettersAlwaysSucceed == ~crashed

\* C18: while animation is disabled on a shape, its rendered position,
\* rotation, scale and fill colour equal its logical position, rotation,
\* scale and colour, for every class and after any sequence of create,
\* setPosition, setRotation, setScale and setColor.
C18_RenderedEqualsLogical ==
    (~crashed /\ ~anim.isAnimated /\ RenderedOf(anim) # NullSfShape) =>
        /\ RenderedOf(anim).position = anim.position
        /\ RenderedOf(anim).rotation = anim.rotation
        /\ RenderedOf(anim).scale = anim.scale
        /\ RenderedOf(anim).fill = anim.color

----------------------------------------------------------------------------
(* Claims about the scene file, checked under SpecFile. *)

\* the fields of a class that guardarEscena has a column for
SavedFields(s) ==
    IF s.cls = "Line" THEN [thickness |-> s.geom.thickness] ELSE s.geom

\* two shapes agree in type tag, position, rotation, scale, colour,
\* animated flag and the fields of their class
SavedEq(a, b) ==
    /\ ~IsNull(a)
    /\ ~IsNull(b)
    /\ a.cls = b.cls
    /\ a.type = b.type
    /\ a.position = b.position
    /\ a.rotation = b.rotation
    /\ a.scale = b.scale
    /\ a.color = b.color
    /\ a.isAnimated = b.isAnimated
    /\ a.rotationSpeed = b.rotationSpeed
    /\ a.scaleSpeed = b.scaleSpeed
    /\ SavedFields(a) = SavedFields(b)

\* C13: saving a Scene over the supported classes and loading the file
\* again yields a Scene of the same length whose i-th shape equals the
\* original i-th shape in type tag, position, rotation, scale, colour,
\* animated flag and the fields of its class.
C13_SaveLoadRoundTrip ==
    (mark.kind = "Load" /\ archivo = guardarEscena(mark.saved)) =>
        /\ ~crashed
        /\ Len(formas) = Len(mark.saved)
        /\ \A i \in 1..Len(mark.saved) : SavedEq(formas[i], mark.saved[i])

\* the file opens and holds fewer complete records than it declares
Truncated == archivo.open /\ mark.complete < Len(mark.saved)

\* C15 as stated: after the load of a file that opens but is truncated
\* after k complete records, the Scene does not equal the pre-load Scene.
C15_LoadedSceneDiffers ==
    (mark.kind = "Load" /\ ~crashed /\ Truncated) => formas # mark.pre

\* C15: load clears the Scene before it parses any record.  After the load
\* of a file that opens but is truncated after k complete records the Scene
\* is what the file alone yields (the load of the same file into an empty
\* Scene), with at most the declared number of shapes and none of the
\* pre-load shapes; after the load of a file that cannot be opened the
\* Scene is unchanged.
C15_LoadClearsFirst ==
    (mark.kind = "Load" /\ ~crashed) =>
        /\ ~archivo.open => formas = mark.pre
        /\ Truncated =>
              /\ Len(formas) <= Len(mark.saved)
              /\ \E ch \in IndetChoices :
                    formas = DecodeLoop(Len(mark.saved),
                                        Rest(archivo.tokens, 1), <<>>,
                                        ch).formas

C15_Witness ==
    /\ mark.kind = "Load"
    /\ ~crashed
    /\ Truncated
    /\ mark.complete >= 1
    /\ Len(formas) >= 1
    /\ Len(mark.pre) = 2
    /\ formas # mark.pre

\* the classes cargarEscena's switch has a case for
SerializableClasses == Classes \ {"Cube"}

\* C22: decoding a well-formed scene file that declares N records over the
\* serializable classes yields a Scene of exactly N shapes in file order,
\* built from the file alone (none of the pre-load shapes is left), with
\* each shape's rotation, scale and animated flag equal to the stored
\* values.
C22_DecodeWellFormed ==
    (/\ mark.kind = "Load"
     /\ archivo = guardarEscena(mark.saved)
     /\ \A i \in 1..Len(mark.saved) :
           mark.saved[i].cls \in SerializableClasses) =>
        /\ ~crashed
        /\ Len(formas) = Len(mark.saved)
        /\ \A i \in 1..Len(mark.saved) :
              /\ formas[i].cls = mark.saved[i].cls
              /\ formas[i].rotation = mark.saved[i].rotation
              /\ formas[i].scale = mark.saved[i].scale
              /\ formas[i].isAnimated = mark.saved[i].isAnimated
        /\ \E ch \in IndetChoices :
              formas = cargarEscena(archivo, <<>>, ch).formas

----------------------------------------------------------------------------
(* Claims about the ownership of shape objects, checked under SpecOwn. *)

\* the objects the actions of a stack hold as snapshots, in stack order
Snapshots(stack) ==
    SelectSeq([i \in DOMAIN stack |-> stack[i].shape],
              LAMBDA s : ~IsNull(s))

Live(scene) == SelectSeq(scene, LAMBDA s : ~IsNull(s))

\* C17: in every reachable state no shape object held as a snapshot by an
\* action of the undo or the redo history is a live Scene entry, and no two
\* history actions share a snapshot, after any sequence of add, delete,
\* drag, undo and redo.
C17_SnapshotsNeverAlias ==
    LET snaps == Snapshots(undoStack) \o Snapshots(redoStack)
        live == Live(formas)
    IN  /\ \A i, j \in DOMAIN snaps : i # j => snaps[i] # snaps[j]
        /\ \A i \in DOMAIN snaps : \A j \in DOMAIN live : snaps[i] # live[j]

C17_Witness ==
    /\ Len(Snapshots(undoStack)) >= 1
    /\ Len(Snapshots(redoStack)) >= 2
    /\ Len(Live(formas)) >= 1
    /\ ~crashed

----------------------------------------------------------------------------
(* Claims about the kinds of change to the Scene's collection and about
   the indices of history actions, checked under SpecOwn. *)

IsInsertAtEnd ==
    /\ Len(formas') = Len(formas) + 1
    /\ SubSeq(formas', 1, Len(formas)) = formas

IsInsertAt ==
    /\ Len(formas') = Len(formas) + 1
    /\ \E i \in 0..Len(formas) : formas' = Insert(formas, i, formas'[i + 1])

IsRemoveAt == \E i \in 0..(Len(formas) - 1) : formas' = Erase(formas, i)

IsReplaceAt ==
    /\ Len(formas') = Len(formas)
    /\ \E i \in 1..Len(formas) :
          \A j \in 1..Len(formas) : j # i => formas'[j] = formas[j]

\* the clear of a load followed by its inserts at the end: every entry is an
\* object made after the step began
IsReload ==
    /\ archivo.open
    /\ \A j \in 1..Len(formas') :
          ~IsNull(formas'[j]) /\ formas'[j].addr > heap

\* C19 as stated: every change to the Scene's ordered collection, in any
\* step (add, delete, drag, undo, redo, load), is an insert at the end, a
\* remove at an index or a replace at an index.
C19_ThreeKinds == [][IsInsertAtEnd \/ IsRemoveAt \/ IsReplaceAt]_formas

\* C19: every change to the Scene's ordered collection, in any step (add,
\* delete, drag, undo, redo, load), is an insert at an index (the end
\* included), a remove at an index, a replace at an index, or the clear of a
\* load followed by inserts at the end.
C19_KindsOfChange ==
    [][IsInsertAt \/ IsRemoveAt \/ IsReplaceAt \/ IsReload]_formas

\* an undo of a Remove has put its entry back before the end of the Scene
C19_Witness ==
    /\ mark.kind = "Applied"
    /\ mark.op = "undo"
    /\ mark.action.type = "Remove"
    /\ ~crashed
    /\ mark.action.index < Len(mark.pre)
    /\ Len(formas) = Len(mark.pre) + 1

\* the index of the applied action lay outside the Scene it was applied to
StaleIndex ==
    /\ mark.kind = "Applied"
    /\ LET inserts == \/ mark.op = "undo" /\ mark.action.type = "Remove"
                      \/ mark.op = "redo" /\ mark.action.type = "Add"
           limit == IF inserts THEN Len(mark.pre) ELSE Len(mark.pre) - 1
       IN  mark.action.index > limit

\* C20: actions address shapes by plain integer index without any guard:
\* when an undo or a redo is applied with an index that is out of range for
\* the current Scene, because the Scene has shrunk since the action was
\* recorded, the application is not skipped and the process is in its error
\* state; such a sequence of add, delete, load, undo and redo is reachable.
C20_StaleIndexUnguarded == StaleIndex => crashed

C20_Witness ==
    /\ StaleIndex
    /\ crashed
    /\ archivo.open
    /\ Len(formas) <= mark.action.index

\* C26: in a session of add, delete, undo and redo alone (no scene file has
\* been written, so no load has changed the Scene), every undo or redo the
\* host applies uses an index in range for the Scene at that moment:
\* 0 <= index < size for an erase or a replace, 0 <= index <= size for an
\* insert.
C26_IndexInRangeWithoutLoad ==
    (~archivo.open /\ mark.kind = "Applied") =>
        /\ mark.action.index >= 0
        /\ ~StaleIndex

\* the undo of the delete of the last entry inserts at index = size
C26_Witness ==
    /\ ~archivo.open
    /\ mark.kind = "Applied"
    /\ mark.op = "undo"
    /\ mark.action.type = "Remove"
    /\ mark.action.index = Len(mark.pre)
    /\ Len(mark.pre) >= 1
    /\ ~crashed

====
